---- MODULE Spec2Model ----
(***************************************************************************)
(* concatenatrix: concatenation of the text files tracked by a Git         *)
(* repository into one annotated stream.  Strings and file contents are    *)
(* sequences of bytes (0..255), as the Go code sees them.                  *)
(***************************************************************************)
EXTENDS Integers, Sequences, FiniteSets, TLC

VARIABLES files, opts, fs, pc, extMap, idx, buffer, fileCount, totalTokens,
          logged, fn, arg, ret,
          flags, repo, selectedExts, clipboard, disk, stdout, writeErr

vars == <<files, opts, fs, pc, extMap, idx, buffer, fileCount, totalTokens,
          logged, fn, arg, ret,
          flags, repo, selectedExts, clipboard, disk, stdout, writeErr>>

buildVars == <<files, opts, fs, pc, extMap, idx, buffer, fileCount,
               totalTokens, logged>>

callVars == <<fn, arg, ret>>

\* the command line and the repository main starts from, the selection of
\* the interactive form, and what the run leaves behind
inputVars == <<flags, repo, selectedExts>>

sinkVars == <<clipboard, disk, stdout>>

mainVars == <<flags, repo, selectedExts, clipboard, disk, stdout, writeErr>>

(***************************************************************************)
(* Byte values the code names as literals.                                 *)
(***************************************************************************)
TAB == 9
LF == 10
CR == 13
SPACE == 32
COMMA == 44
DOT == 46
SLASH == 47
COLON == 58
SampleSize == 512

(***************************************************************************)
(* Bounds of the model.                                                    *)
(***************************************************************************)
MaxFiles == 2

(***************************************************************************)
(* Library functions of Go used by the code, on byte sequences.            *)
(***************************************************************************)
Min(a, b) == IF a < b THEN a ELSE b

\* s[from..], the Go slice expression s[from-1:]
Drop(s, n) == SubSeq(s, n + 1, Len(s))

\* s[..n], the Go slice expression s[:n]
Take(s, n) == SubSeq(s, 1, Min(n, Len(s)))

\* strings.HasPrefix
HasPrefix(s, prefix) ==
    /\ Len(s) >= Len(prefix)
    /\ SubSeq(s, 1, Len(prefix)) = prefix

\* strings.Join, with a one-byte separator
RECURSIVE Join(_, _)
Join(segments, sep) ==
    IF Len(segments) = 0 THEN <<>>
    ELSE IF Len(segments) = 1 THEN segments[1]
    ELSE segments[1] \o <<sep>> \o Join(Tail(segments), sep)

\* strings.HasSuffix
HasSuffix(s, suffix) ==
    /\ Len(s) >= Len(suffix)
    /\ SubSeq(s, Len(s) - Len(suffix) + 1, Len(s)) = suffix

\* strings.Index for a one-byte separator: first position of sep, 0 if none
IndexByte(s, sep) ==
    IF \E k \in 1..Len(s) : s[k] = sep
    THEN CHOOSE k \in 1..Len(s) : s[k] = sep /\ \A j \in 1..(k - 1) : s[j] # sep
    ELSE 0

\* strings.Split(s, sep) for a one-byte separator: always at least one segment
RECURSIVE Split(_, _)
Split(s, sep) ==
    LET k == IndexByte(s, sep)
    IN  IF k = 0 THEN <<s>>
        ELSE <<SubSeq(s, 1, k - 1)>> \o Split(Drop(s, k), sep)

\* unicode.IsSpace on the bytes of an ASCII string
IsSpace(b) == b \in {TAB, LF, 11, 12, CR, SPACE}

\* strings.TrimSpace
RECURSIVE TrimLeft(_)
TrimLeft(s) ==
    IF s # <<>> /\ IsSpace(s[1]) THEN TrimLeft(Tail(s)) ELSE s

RECURSIVE TrimRight(_)
TrimRight(s) ==
    IF s # <<>> /\ IsSpace(s[Len(s)]) THEN TrimRight(SubSeq(s, 1, Len(s) - 1)) ELSE s

TrimSpace(s) == TrimRight(TrimLeft(s))

\* filepath.Ext: the suffix beginning at the final dot in the final element
\* of path; empty if there is no dot
RECURSIVE ExtFrom(_, _)
ExtFrom(path, k) ==
    IF k < 1 \/ path[k] = SLASH THEN <<>>
    ELSE IF path[k] = DOT THEN Drop(path, k - 1)
    ELSE ExtFrom(path, k - 1)

Ext(path) == ExtFrom(path, Len(path))

\* fmt.Sprintf("%d", n) for n >= 0
RECURSIVE Itoa(_)
Itoa(n) ==
    IF n < 10 THEN <<48 + n>> ELSE Itoa(n \div 10) \o <<48 + (n % 10)>>

\* utf8.Valid: well-formed UTF-8, no overlong forms, no surrogates,
\* nothing above U+10FFFF.  Every byte is an ASCII byte, a lead byte
\* followed by its continuation bytes, or a continuation byte of the lead
\* byte that precedes it.
IsCont(c) == c >= 128 /\ c <= 191

\* the number of continuation bytes a lead byte asks for
Following(c) ==
    IF c >= 194 /\ c <= 223 THEN 1
    ELSE IF c >= 224 /\ c <= 239 THEN 2
    ELSE IF c >= 240 /\ c <= 244 THEN 3
    ELSE 0

\* the range of the first continuation byte after lead byte c
FirstContLow(c) == IF c = 224 THEN 160 ELSE IF c = 240 THEN 144 ELSE 128

FirstContHigh(c) == IF c = 237 THEN 159 ELSE IF c = 244 THEN 143 ELSE 191

Utf8Valid(b) ==
    \A k \in 1..Len(b) :
        LET c == b[k]
        IN  \/ c < 128
            \/ /\ Following(c) > 0
               /\ k + Following(c) <= Len(b)
               /\ b[k + 1] >= FirstContLow(c)
               /\ b[k + 1] <= FirstContHigh(c)
               /\ \A j \in (k + 1)..(k + Following(c)) : IsCont(b[j])
            \/ /\ IsCont(c)
               /\ \E j \in 1..3 : k - j >= 1 /\ Following(b[k - j]) >= j

(***************************************************************************)
(* The file system as the program observes it.  A path names a regular     *)
(* file with its bytes, a directory (it opens, and reading it fails), or   *)
(* nothing.                                                                *)
(***************************************************************************)
Absent == [kind |-> "absent", data |-> <<>>]
Directory == [kind |-> "dir", data |-> <<>>]
RegularFile(bytes) == [kind |-> "file", data |-> bytes]


(***************************************************************************)
(* int64 arithmetic.  A 64-bit word is four 16-bit limbs, least            *)
(* significant first; products wrap modulo 2^64 and division truncates     *)
(* toward zero, as Go's int64 does.                                        *)
(***************************************************************************)
Radix == 256 * 256

Limbs == 0..(Radix - 1)

Word(n) == <<n % Radix, (n \div Radix) % Radix, 0, 0>>

\* the value of a word that fits the model's integers
ToInt(w) == w[1] + w[2] * Radix

IsNegative(w) == w[4] >= Radix \div 2

\* w * k modulo 2^64, for a small k
MulWord(w, k) ==
    LET p1 == w[1] * k
        p2 == w[2] * k + p1 \div Radix
        p3 == w[3] * k + p2 \div Radix
        p4 == w[4] * k + p3 \div Radix
    IN  <<p1 % Radix, p2 % Radix, p3 % Radix, p4 % Radix>>

\* -w modulo 2^64
Negate(w) ==
    LET n1 == (Radix - 1 - w[1]) + 1
        n2 == (Radix - 1 - w[2]) + n1 \div Radix
        n3 == (Radix - 1 - w[3]) + n2 \div Radix
        n4 == (Radix - 1 - w[4]) + n3 \div Radix
    IN  <<n1 % Radix, n2 % Radix, n3 % Radix, n4 % Radix>>

\* unsigned w \div d, for a small d
DivWord(w, d) ==
    LET c4 == w[4]
        c3 == (c4 % d) * Radix + w[3]
        c2 == (c3 % d) * Radix + w[2]
        c1 == (c2 % d) * Radix + w[1]
    IN  <<c1 \div d, c2 \div d, c3 \div d, c4 \div d>>

\* unsigned w % d, for a small d
ModWord(w, d) ==
    ((((((w[4] % d) * Radix + w[3]) % d) * Radix + w[2]) % d) * Radix + w[1]) % d

\* the int64 quotient w / d of Go: truncated toward zero
QuoWord(w, d) ==
    IF IsNegative(w) THEN Negate(DivWord(Negate(w), d)) ELSE DivWord(w, d)

\* unsigned comparison of words
LessEqWord(a, b) ==
    \/ a = b
    \/ \E k \in 1..4 : a[k] < b[k] /\ \A j \in (k + 1)..4 : a[j] = b[j]

(***************************************************************************)
(* estimateTokens: os.Stat, then byteSize * 10 / 35 in int64.              *)
(***************************************************************************)
\* os.Stat of a path of the modelled file system
Stat(f) == [err |-> f.kind = "absent", size |-> Word(Len(f.data))]

estimateTokens(fileInfo) ==
    IF fileInfo.err THEN Word(0)
    ELSE QuoWord(MulWord(fileInfo.size, 10), 35)

(***************************************************************************)
(* isTextFile: sample the first 512 bytes.                                 *)
(***************************************************************************)
\* the bytes the loop of isTextFile counts
NonPrintable(buf) ==
    Cardinality({k \in 1..Len(buf) :
                    buf[k] < 32 /\ buf[k] # LF /\ buf[k] # CR /\ buf[k] # TAB})

\* float64(nonPrintable)/float64(n) < 0.1 : for 0 <= nonPrintable <= n <= 512
\* the float64 quotient is below the float64 nearest to 0.1 exactly when
\* 10 * nonPrintable < n (the quotient of k and 10k rounds to that same float64)
BelowTenth(nonPrintable, n) == 10 * nonPrintable < n

isTextFileNoValidity(f) ==
    IF f.kind # "file" THEN FALSE
    ELSE LET buf == Take(f.data, SampleSize)
             n == Len(buf)
         IN  IF n = 0 THEN TRUE
             ELSE BelowTenth(NonPrintable(buf), n)

isTextFile(f) ==
    IF f.kind = "absent" THEN FALSE          \* os.Open fails
    ELSE IF f.kind = "dir" THEN FALSE        \* file.Read fails, not io.EOF
    ELSE LET buf == Take(f.data, SampleSize)
             n == Len(buf)
         IN  IF n = 0 THEN TRUE
             ELSE IF ~Utf8Valid(buf) THEN FALSE
             ELSE BelowTenth(NonPrintable(buf), n)

(***************************************************************************)
(* isHiddenFile: some '/'-separated part of the path starts with a dot.    *)
(***************************************************************************)
\* filepath.ToSlash where the path separator is '/'
ToSlash(path) == path

isHiddenFileFirstPart(filePath) ==
    HasPrefix(Split(ToSlash(filePath), SLASH)[1], <<DOT>>)

isHiddenFile(filePath) ==
    LET parts == Split(ToSlash(filePath), SLASH)
    IN  \E k \in 1..Len(parts) : HasPrefix(parts[k], <<DOT>>)


(***************************************************************************)
(* buildOutput.                                                            *)
(***************************************************************************)
\* "Format description: The following are files in the Git repository of
\*  the project. The files are separated using {{File: filename.txt}}.\n\n"
Preamble ==
    <<
       70, 111, 114, 109, 97, 116, 32, 100, 101, 115, 99, 114, 105,
       112, 116, 105, 111, 110, 58, 32, 84, 104, 101, 32, 102, 111,
       108, 108, 111, 119, 105, 110, 103, 32, 97, 114, 101, 32, 102,
       105, 108, 101, 115, 32, 105, 110, 32, 116, 104, 101, 32, 71,
       105, 116, 32, 114, 101, 112, 111, 115, 105, 116, 111, 114, 121,
       32, 111, 102, 32, 116, 104, 101, 32, 112, 114, 111, 106, 101,
       99, 116, 46, 32, 84, 104, 101, 32, 102, 105, 108, 101, 115, 32,
       97, 114, 101, 32, 115, 101, 112, 97, 114, 97, 116, 101, 100,
       32, 117, 115, 105, 110, 103, 32, 123, 123, 70, 105, 108, 101,
       58, 32, 102, 105, 108, 101, 110, 97, 109, 101, 46, 116, 120,
       116, 125, 125, 46, 10, 10
    >>

\* "{{File: "
Marker == <<123, 123, 70, 105, 108, 101, 58, 32>>

PreambleTwice(file) == Preamble \o Marker \o file \o <<125, 125, LF>>

\* fmt.Sprintf("{{File: %s}}\n", file)
Header(file) == Marker \o file \o <<125, 125, LF>>

\* fmt.Sprintf("%d: %s\n", i+1, line) over strings.Split(content, "\n")
RECURSIVE NumberLines(_, _)
NumberLines(lines, i) ==
    IF i > Len(lines) THEN <<>>
    ELSE Itoa(i) \o <<COLON, SPACE>> \o lines[i] \o <<LF>>
         \o NumberLines(lines, i + 1)

NumberedNoTrailing(content) ==
    LET lines == Split(content, LF)
    IN  NumberLines(IF Len(lines) > 1 /\ lines[Len(lines)] = <<>>
                    THEN SubSeq(lines, 1, Len(lines) - 1) ELSE lines, 1)

Numbered(content) == NumberLines(Split(content, LF), 1)

\* the body written for a file that was read
Body(content, includeLineNumbers) ==
    IF includeLineNumbers THEN Numbered(content) ELSE content

\* buffer.WriteString("\n") after the body
NoSeparator == <<>>

Separator == <<LF>>

\* the extension set; a nil map when no extensions are given
NilMap == [nil |-> TRUE, keys |-> {}]

ExtKeyDotted(ext) == <<DOT>> \o TrimSpace(ext)

ExtKey(ext) ==
    LET trimmed == TrimSpace(ext)
    IN  IF trimmed = <<>> THEN <<>> ELSE <<DOT>> \o trimmed

MakeExtMap(extensions) ==
    IF extensions = <<>> THEN NilMap
    ELSE LET entries == Split(extensions, COMMA)
         IN  [nil |-> FALSE,
              keys |-> {ExtKey(entries[k]) : k \in 1..Len(entries)}]

\* extMap != nil and fileExt is no key of it
ExcludedEvenWhenNil(map, fileExt) == fileExt \notin map.keys

Excluded(map, fileExt) == ~map.nil /\ fileExt \notin map.keys

\* the candidate the loop visits in its k-th iteration
FileAtReversed(list, k) == list[Len(list) + 1 - k]

FileAt(list, k) == list[k]

(***************************************************************************)
(* Inputs.                                                                 *)
(***************************************************************************)
\* "a.go", "README", "b.txt", ".git/c", "d/.h", "d/.e/f"
Paths == {<<97, 46, 103, 111>>, <<82, 69, 65, 68, 77, 69>>, <<98, 46, 116, 120, 116>>, <<46, 103, 105, 116, 47, 99>>, <<100, 47, 46, 104>>, <<100, 47, 46, 101, 47, 102>>}

\* "", "hi", "a\n\n\n\n\n\n\n\n\nb\n" (eleven segments), the bytes 00 FF
Contents == {<<>>, <<104, 105>>, <<97, 10, 10, 10, 10, 10, 10, 10, 10, 10, 98, 10>>, <<0, 255>>}

FileStates == {Absent} \cup {RegularFile(c) : c \in Contents}

\* "", "go,", " txt"
ExtensionStrings == {<<>>, <<103, 111, 44>>, <<32, 116, 120, 116>>}

FileLists == UNION {[1..n -> Paths] : n \in 0..MaxFiles}

Range(f) == {f[x] : x \in DOMAIN f}

\* a file removed by another process while the loop body runs: not at all,
\* between isTextFile and os.Stat, or between os.Stat and os.ReadFile
Races == {"none", "beforeStat", "beforeRead"}

NoCall == [done |-> FALSE, val |-> FALSE]

NoFlags == [c |-> FALSE, ext |-> <<>>, n |-> FALSE, i |-> FALSE]

\* "old": what a destination held before the call
Old == <<111, 108, 100>>

\* "output.txt" (the default of line 235) and "o"
OutNames == {<<111, 117, 116, 112, 117, 116, 46, 116, 120, 116>>, <<111>>}

\* buildOutput and the functions of main_test.go are called without main:
\* no command line, no listing, and nothing is delivered
MainIdle ==
    /\ flags = NoFlags
    /\ repo = [ok |-> TRUE, list |-> <<>>]
    /\ selectedExts = <<>>
    /\ clipboard = <<>>
    /\ disk = [name \in OutNames |-> Absent]
    /\ stdout = <<>>
    /\ writeErr = "unset"

InitBuild ==
    /\ MainIdle
    /\ files \in FileLists
    /\ opts \in [CopyToClipboard : {FALSE},
                 Extensions : ExtensionStrings,
                 IncludeLineNumbers : BOOLEAN,
                 OutputFilename : {<<>>}]
    /\ \E present \in [Range(files) -> FileStates] :
          fs = [p \in Paths |-> IF p \in Range(files) THEN present[p] ELSE Absent]
    /\ pc = "build"
    /\ extMap = NilMap
    /\ idx = 0
    /\ buffer = <<>>
    /\ fileCount = 0
    /\ totalTokens = 0
    /\ logged = <<>>
    /\ fn = "none"
    /\ arg = <<>>
    /\ ret = NoCall

\* lines 268-283: the preamble and the extension set
BuildOutputEnter ==
    /\ pc = "build"
    /\ buffer' = Preamble
    /\ extMap' = MakeExtMap(opts.Extensions)
    /\ pc' = "loop"
    /\ UNCHANGED <<files, opts, fs, idx, fileCount, totalTokens, logged, callVars,
                   mainVars>>

\* the header written before os.ReadFile is called
ProcessFileHeaderFirst(race) ==
    /\ pc = "loop"
    /\ idx < Len(files)
    /\ LET file == FileAt(files, idx + 1)
           atOpen == fs[file]
           atStat == IF race = "beforeStat" THEN Absent ELSE atOpen
           atRead == IF race = "none" THEN atOpen ELSE Absent
           fileExt == Ext(file)
       IN  /\ idx' = idx + 1
           /\ IF isHiddenFile(file) \/ ~isTextFile(atOpen)
              THEN /\ race = "none"
                   /\ logged' = Append(logged, <<"Skipping file", file>>)
                   /\ UNCHANGED <<buffer, fileCount, totalTokens, fs>>
              ELSE /\ totalTokens' = totalTokens + ToInt(estimateTokens(Stat(atStat)))
                   /\ fs' = [fs EXCEPT ![file] = atRead]
                   /\ IF Excluded(extMap, fileExt)
                      THEN /\ race # "beforeRead"
                           /\ logged' = Append(logged,
                                  <<"Skipping file with excluded extension", file>>)
                           /\ UNCHANGED <<buffer, fileCount>>
                      ELSE IF atRead.kind # "file"
                           THEN /\ logged' = Append(logged, <<"Failed to read file", file>>)
                                /\ buffer' = buffer \o Header(file)
                                /\ UNCHANGED fileCount
                           ELSE /\ buffer' = buffer \o Header(file)
                                        \o Body(atRead.data, opts.IncludeLineNumbers)
                                        \o Separator
                                /\ fileCount' = fileCount + 1
                                /\ UNCHANGED logged
    /\ UNCHANGED <<files, opts, pc, extMap, callVars, mainVars>>

\* lines 285-314: one iteration of the loop over files
ProcessFile(race) ==
    /\ pc = "loop"
    /\ idx < Len(files)
    /\ LET file == FileAt(files, idx + 1)
           atOpen == fs[file]
           atStat == IF race = "beforeStat" THEN Absent ELSE atOpen
           atRead == IF race = "none" THEN atOpen ELSE Absent
           fileExt == Ext(file)
       IN  /\ idx' = idx + 1
           /\ IF isHiddenFile(file) \/ ~isTextFile(atOpen)
              THEN /\ race = "none"
                   /\ logged' = Append(logged, <<"Skipping file", file>>)
                   /\ UNCHANGED <<buffer, fileCount, totalTokens, fs>>
              ELSE /\ totalTokens' = totalTokens + ToInt(estimateTokens(Stat(atStat)))
                   /\ fs' = [fs EXCEPT ![file] = atRead]
                   /\ IF Excluded(extMap, fileExt)
                      THEN /\ race # "beforeRead"
                           /\ logged' = Append(logged,
                                  <<"Skipping file with excluded extension", file>>)
                           /\ UNCHANGED <<buffer, fileCount>>
                      ELSE IF atRead.kind # "file"
                           THEN /\ logged' = Append(logged, <<"Failed to read file", file>>)
                                /\ UNCHANGED <<buffer, fileCount>>
                           ELSE /\ buffer' = buffer \o Header(file)
                                        \o Body(atRead.data, opts.IncludeLineNumbers)
                                        \o Separator
                                /\ fileCount' = fileCount + 1
                                /\ UNCHANGED logged
    /\ UNCHANGED <<files, opts, pc, extMap, callVars, mainVars>>

\* the loop left before the last candidate
BuildOutputReturnEarly ==
    /\ pc = "loop"
    /\ idx <= Len(files)
    /\ pc' = "built"
    /\ UNCHANGED <<files, opts, fs, extMap, idx, buffer, fileCount, totalTokens,
                   logged, callVars, mainVars>>

\* line 315: return buffer.String(), fileCount, totalTokens
BuildOutputReturn ==
    /\ pc = "loop"
    /\ idx = Len(files)
    /\ pc' = "built"
    /\ UNCHANGED <<files, opts, fs, extMap, idx, buffer, fileCount, totalTokens,
                   logged, callVars, mainVars>>

Init == InitBuild

Next ==
    \/ BuildOutputEnter
    \/ \E race \in Races : ProcessFile(race)
    \/ BuildOutputReturn

Spec == Init /\ [][Next]_vars


(***************************************************************************)
(* writeOutput, lines 319-334, and toClipboard, lines 110-120.             *)
(***************************************************************************)
\* the branch of lines 320-331 that is taken
DestinationFileFirst(o) ==
    IF o.OutputFilename # <<>> THEN "file"
    ELSE IF o.CopyToClipboard THEN "clipboard" ELSE "stdout"

Destination(o) ==
    IF o.CopyToClipboard THEN "clipboard"
    ELSE IF o.OutputFilename # <<>> THEN "file" ELSE "stdout"

\* os.WriteFile: it succeeds, it cannot open the file, or it fails after the
\* file was truncated and only part of the bytes went in
WriteFaults == {"none", "open", "short"}

\* the lengths a failed write is followed through: nothing, one byte, all
\* but the last byte
ShortWrites(output) == {k \in {0, 1, Len(output) - 1} : k >= 0 /\ k < Len(output)}

\* writeOutput(output, opts); after is where the caller goes on when the
\* call returns. log.Fatal in toClipboard ends the process instead.
writeOutput(output, o, after) ==
    IF Destination(o) = "clipboard"
    THEN \E initFails \in BOOLEAN :
            IF initFails
            THEN /\ pc' = "fatal"
                 /\ logged' = Append(logged, <<"fatal", "clipboard.Init">>)
                 /\ UNCHANGED <<clipboard, disk, stdout, writeErr>>
            ELSE /\ pc' = after
                 /\ clipboard' = output
                 /\ logged' = Append(logged, <<"Output copied to clipboard">>)
                 /\ writeErr' = "nil"
                 /\ UNCHANGED <<disk, stdout>>
    ELSE IF Destination(o) = "file"
    THEN \E fault \in WriteFaults :
            /\ pc' = after
            /\ writeErr' = "nil"
            /\ UNCHANGED <<clipboard, stdout>>
            /\ IF fault = "none"
               THEN /\ disk' = [disk EXCEPT ![o.OutputFilename] = RegularFile(output)]
                    /\ logged' = Append(logged, <<"Output written to file",
                                                  o.OutputFilename>>)
               ELSE /\ logged' = Append(logged, <<"Failed to write output file">>)
                    /\ IF fault = "open"
                       THEN disk' = disk
                       ELSE \E k \in ShortWrites(output) :
                               disk' = [disk EXCEPT ![o.OutputFilename] =
                                                       RegularFile(Take(output, k))]
    ELSE /\ pc' = after
         /\ stdout' = stdout \o output
         /\ writeErr' = "nil"
         /\ UNCHANGED <<clipboard, disk, logged>>


(***************************************************************************)
(* main, lines 36-47: parseOptions, getTrackedFiles, buildOutput,          *)
(* writeOutput, and the summary.                                           *)
(***************************************************************************)
\* strings.TrimPrefix
TrimPrefix(s, prefix) == IF HasPrefix(s, prefix) THEN Drop(s, Len(prefix)) ELSE s

\* a < b as Go compares strings: byte by byte, a proper prefix first
LexLess(a, b) ==
    \E k \in 1..(Len(b)) :
        /\ \A j \in 1..(k - 1) : j <= Len(a) /\ a[j] = b[j]
        /\ (k > Len(a) \/ (k <= Len(a) /\ a[k] < b[k]))

\* sort.Strings over the keys of a map
RECURSIVE SortStrings(_)
SortStrings(set) ==
    IF set = {} THEN <<>>
    ELSE LET least == CHOOSE x \in set : \A y \in set \ {x} : LexLess(x, y)
         IN  <<least>> \o SortStrings(set \ {least})

\* the error of cmd.Output dropped
getTrackedFilesNoError(r) ==
    [err |-> FALSE,
     files |-> IF r.ok THEN SelectSeq(r.list, LAMBDA line : line # <<>>) ELSE <<>>]

\* lines 249-264: the lines git ls-files printed, the empty ones dropped
getTrackedFiles(r) ==
    IF r.ok
    THEN [err |-> FALSE, files |-> SelectSeq(r.list, LAMBDA line : line # <<>>)]
    ELSE [err |-> TRUE, files |-> <<>>]

\* lines 142-163: the extensions of the tracked files that are neither hidden
\* nor binary, sorted
OfferedExts(tracked, disk0) ==
    SortStrings({Ext(tracked[k]) : k \in {j \in 1..Len(tracked) :
                     ~isHiddenFile(tracked[j]) /\ isTextFile(disk0[tracked[j]])}})

\* lines 188-197: an entry per selected extension, without the leading dot
ProcessedExts(selected) ==
    [k \in 1..Len(selected) |->
        IF selected[k] # <<>> THEN TrimPrefix(selected[k], <<DOT>>) ELSE <<>>]

\* lines 199-203: the value given to the -ext flag variable
ExtensionsOf(selected) ==
    IF Len(selected) = 1 /\ selected[1] = <<>> THEN <<COMMA>>
    ELSE Join(ProcessedExts(selected), COMMA)

\* "output.txt", line 235
DefaultOutput == <<111, 117, 116, 112, 117, 116, 46, 116, 120, 116>>

\* what is typed into the file name prompt: nothing, a blank, "o"
FilenameInputs == {<<>>, <<SPACE>>, <<111>>}

\* the prompts of the interactive form, in the order they are run; each can
\* return an error (the form is aborted, or there is no terminal)
Prompts == <<"Interactive selection failed", "Interactive confirm failed",
             "Interactive confirm failed", "Interactive input for filename failed">>

\* lines 123-246. Without -i the flags are the options; with -i the options
\* come from the form, and every error on the way is fatal.
ParseOptions ==
    /\ pc = "parse"
    /\ IF ~flags.i
       THEN /\ opts' = [CopyToClipboard |-> flags.c, Extensions |-> flags.ext,
                        IncludeLineNumbers |-> flags.n, OutputFilename |-> <<>>]
            /\ pc' = "list"
            /\ UNCHANGED <<selectedExts, logged>>
       ELSE IF getTrackedFiles(repo).err
       THEN /\ pc' = "fatal"
            /\ logged' = Append(logged, <<"fatal", "Failed to list Git files">>)
            /\ UNCHANGED <<selectedExts, opts>>
       ELSE LET exts == OfferedExts(getTrackedFiles(repo).files, fs)
            IN  \E chosen \in SUBSET Range(exts), includeLn \in BOOLEAN,
                   copyClip \in BOOLEAN, typed \in FilenameInputs,
                   failsAt \in 0..Len(Prompts) :
                   LET selected == SelectSeq(exts, LAMBDA e : e \in chosen)
                   IN  IF failsAt # 0
                       THEN /\ failsAt = 4 => ~copyClip
                            /\ pc' = "fatal"
                            /\ logged' = Append(logged, <<"fatal", Prompts[failsAt]>>)
                            /\ selectedExts' = IF failsAt > 1 THEN selected ELSE <<>>
                            /\ opts' = opts
                       ELSE /\ pc' = "list"
                            /\ selectedExts' = selected
                            /\ opts' = [CopyToClipboard |-> copyClip,
                                        Extensions |-> ExtensionsOf(selected),
                                        IncludeLineNumbers |-> includeLn,
                                        OutputFilename |->
                                           IF copyClip THEN <<>>
                                           ELSE IF TrimSpace(typed) = <<>>
                                                THEN DefaultOutput ELSE typed]
                            /\ logged' = logged
    /\ UNCHANGED <<files, fs, extMap, idx, buffer, fileCount, totalTokens>>
    /\ UNCHANGED <<flags, repo, sinkVars, writeErr, callVars>>

\* lines 38-41: the listing, fatal when git fails
GetTrackedFiles ==
    /\ pc = "list"
    /\ IF getTrackedFiles(repo).err
       THEN /\ pc' = "fatal"
            /\ logged' = Append(logged, <<"fatal", "Failed to list Git files">>)
            /\ files' = files
       ELSE /\ pc' = "build"
            /\ files' = getTrackedFiles(repo).files
            /\ logged' = logged
    /\ UNCHANGED <<opts, fs, extMap, idx, buffer, fileCount, totalTokens>>
    /\ UNCHANGED <<mainVars, callVars>>

\* line 43: the output of buildOutput is handed to writeOutput
WriteOutput ==
    /\ pc = "built"
    /\ writeOutput(buffer, opts, "written")
    /\ UNCHANGED <<files, opts, fs, extMap, idx, buffer, fileCount, totalTokens>>
    /\ UNCHANGED <<inputVars, callVars>>

\* lines 43-46: the error of writeOutput is logged, then the summary
Summary ==
    /\ pc = "written"
    /\ pc' = "done"
    /\ logged' = Append(IF writeErr # "nil"
                        THEN Append(logged, <<"Error writing output">>)
                        ELSE logged,
                        <<"Processed files", fileCount, totalTokens>>)
    /\ UNCHANGED <<files, opts, fs, extMap, idx, buffer, fileCount, totalTokens>>
    /\ UNCHANGED <<mainVars, callVars>>

\* "README", "a.go" and "x." (a name that ends in a dot: its extension is ".")
MainPaths == {<<82, 69, 65, 68, 77, 69>>, <<97, 46, 103, 111>>, <<120, 46>>}

\* git ls-files prints each tracked path once, in sorted order
Listings == {SortStrings(tracked) : tracked \in {t \in SUBSET MainPaths :
                                                   Cardinality(t) <= MaxFiles}}

\* the command lines: flags alone, or -i alone
CommandLines ==
    [c : BOOLEAN, ext : {<<>>, <<103, 111, 44>>}, n : {FALSE}, i : {FALSE}]
    \cup {[c |-> FALSE, ext |-> <<>>, n |-> FALSE, i |-> TRUE]}

InitMain ==
    /\ flags \in CommandLines
    /\ repo \in {[ok |-> FALSE, list |-> <<>>]}
                \cup {[ok |-> TRUE, list |-> l] : l \in Listings}
    /\ \E present \in [Range(repo.list) -> {RegularFile(<<104, 105>>),
                                            RegularFile(<<0, 255>>)}] :
          fs = [p \in MainPaths |->
                   IF p \in Range(repo.list) THEN present[p] ELSE Absent]
    /\ selectedExts = <<>>
    /\ clipboard = Old
    /\ disk = [name \in OutNames |-> IF name = DefaultOutput THEN Absent
                                     ELSE RegularFile(Old)]
    /\ stdout = <<>>
    /\ writeErr = "unset"
    /\ files = <<>>
    /\ opts = [CopyToClipboard |-> FALSE, Extensions |-> <<>>,
               IncludeLineNumbers |-> FALSE, OutputFilename |-> <<>>]
    /\ pc = "parse"
    /\ extMap = NilMap
    /\ idx = 0
    /\ buffer = <<>>
    /\ fileCount = 0
    /\ totalTokens = 0
    /\ logged = <<>>
    /\ fn = "none"
    /\ arg = <<>>
    /\ ret = NoCall

NextMain ==
    \/ ParseOptions
    \/ GetTrackedFiles
    \/ BuildOutputEnter
    \/ \E race \in Races : ProcessFile(race)
    \/ BuildOutputReturn
    \/ WriteOutput
    \/ Summary

SpecMain == InitMain /\ [][NextMain]_vars


(***************************************************************************)
(* The classifier and the estimator called on their own, as the tests of   *)
(* main_test.go call them: one call per behaviour, its argument drawn in   *)
(* the initial state.                                                      *)
(***************************************************************************)
MaxCtrl == 3
MaxPrint == 30
MaxSize == 40

Rep(b, n) == [k \in 1..n |-> b]

\* samples of control bytes (01) and letters, in both orders
ShortSamples ==
    {Rep(1, c) \o Rep(97, p) : c \in 0..MaxCtrl, p \in 0..MaxPrint}
    \cup {Rep(97, p) \o Rep(1, c) : c \in 0..MaxCtrl, p \in 0..MaxPrint}

\* tab, newline and carriage return among letters; two-, three- and
\* four-byte characters; ill-formed sequences with and without control bytes
OtherSamples ==
    { <<TAB, LF, CR>>, <<TAB, LF, CR, 97>>, <<0, TAB, LF, CR, 97, 97, 97, 97, 97, 97>>,
      <<195, 169>>, <<226, 130, 172>>, <<240, 159, 152, 128>>,
      <<0, 255, 0, 255>>, <<255>>, <<97, 255, 97>>, <<128>>, <<192, 128>>,
      <<195>>, <<97, 195>>, <<224, 128, 128>>, <<237, 160, 128>>,
      <<244, 144, 128, 128>>, <<245, 128, 128, 128>>, <<97, 97, 254>> }

\* files longer than the sample, and samples at the 10% line of 512 bytes
LongSamples ==
    { Rep(97, SampleSize) \o Rep(1, 100),
      Rep(1, 100) \o Rep(97, SampleSize),
      Rep(97, SampleSize) \o <<255>>,
      Rep(97, SampleSize - 1) \o <<195, 169>>,
      Rep(1, 51) \o Rep(97, SampleSize - 51),
      Rep(1, 52) \o Rep(97, SampleSize - 52),
      Rep(1, 51) \o Rep(97, SampleSize - 52) }

TextArgs ==
    {Absent, Directory}
    \cup {RegularFile(b) : b \in ShortSamples \cup OtherSamples \cup LongSamples}

\* file sizes: small ones, the sizes of TestEstimateTokens, and sizes near
\* the largest an int64 holds (the largest size whose tenfold fits in an
\* int64 is 922337203685477580 = <<52428, 52428, 52428, 3276>>)
LargeSizes ==
    { Word(350), Word(700), Word(65535), Word(65536), Word(1000000),
      <<0, 0, 256, 0>>,
      <<52428, 52428, 52428, 3276>>,
      <<52429, 52428, 52428, 3276>>,
      <<0, 0, 0, 4096>>,
      <<65535, 65535, 65535, 32767>> }

Sizes == {Word(n) : n \in 0..MaxSize} \cup LargeSizes

StatArgs ==
    {[err |-> TRUE, size |-> Word(0)]} \cup {[err |-> FALSE, size |-> w] : w \in Sizes}

\* "", "Test output content" (TestWriteOutput), and the preamble
Outputs ==
    {<<>>,
     <<84, 101, 115, 116, 32, 111, 117, 116, 112, 117, 116, 32,
       99, 111, 110, 116, 101, 110, 116>>,
     Preamble}

WriteArgs ==
    [output : Outputs,
     opts : [CopyToClipboard : BOOLEAN,
             Extensions : {<<>>},
             IncludeLineNumbers : {FALSE},
             OutputFilename : {<<>>} \cup OutNames]]

InitCall ==
    /\ \/ fn = "isTextFile" /\ arg \in TextArgs /\ MainIdle
       \/ fn = "estimateTokens" /\ arg \in StatArgs /\ MainIdle
       \/ /\ fn = "writeOutput"
          /\ arg \in WriteArgs
          /\ flags = NoFlags
          /\ repo = [ok |-> TRUE, list |-> <<>>]
          /\ selectedExts = <<>>
          /\ clipboard \in {<<>>, Old}
          /\ disk \in [OutNames -> {Absent, RegularFile(Old)}]
          /\ stdout \in {<<>>, Old}
          /\ writeErr = "unset"
    /\ ret = NoCall
    /\ files = <<>>
    /\ opts = [CopyToClipboard |-> FALSE, Extensions |-> <<>>,
               IncludeLineNumbers |-> FALSE, OutputFilename |-> <<>>]
    /\ fs = [p \in Paths |-> Absent]
    /\ pc = "call"
    /\ extMap = NilMap
    /\ idx = 0
    /\ buffer = <<>>
    /\ fileCount = 0
    /\ totalTokens = 0
    /\ logged = <<>>

CallIsTextFile ==
    /\ pc = "call"
    /\ fn = "isTextFile"
    /\ ~ret.done
    /\ ret' = [done |-> TRUE, val |-> isTextFile(arg)]
    /\ UNCHANGED <<fn, arg, buildVars, mainVars>>

CallEstimateTokens ==
    /\ pc = "call"
    /\ fn = "estimateTokens"
    /\ ~ret.done
    /\ ret' = [done |-> TRUE, val |-> estimateTokens(arg)]
    /\ UNCHANGED <<fn, arg, buildVars, mainVars>>

\* TestWriteOutput: writeOutput(output, opts) called on its own
CallWriteOutput ==
    /\ pc = "call"
    /\ fn = "writeOutput"
    /\ ~ret.done
    /\ writeOutput(arg.output, arg.opts, "call")
    /\ ret' = IF pc' = "fatal" THEN ret ELSE [done |-> TRUE, val |-> writeErr']
    /\ UNCHANGED <<fn, arg, inputVars>>
    /\ UNCHANGED <<files, opts, fs, extMap, idx, buffer, fileCount, totalTokens>>

NextCall ==
    \/ CallIsTextFile
    \/ CallEstimateTokens
    \/ CallWriteOutput

SpecCall == InitCall /\ [][NextCall]_vars


(***************************************************************************)
(* Reading the output back.                                                *)
(***************************************************************************)
\* occurrences of pat in s (strings.Count, for a pattern that cannot overlap
\* itself)
CountOcc(s, pat) ==
    Cardinality({k \in 1..(Len(s) - Len(pat) + 1) :
                    SubSeq(s, k, k + Len(pat) - 1) = pat})

CountByte(s, b) == Cardinality({k \in 1..Len(s) : s[k] = b})

\* the positions after the preamble where a header line starts
HeaderStarts(out) ==
    {k \in (Len(Preamble) + 1)..(Len(out) - Len(Marker) + 1) :
        /\ SubSeq(out, k, k + Len(Marker) - 1) = Marker
        /\ out[k - 1] = LF}

\* the path of the header that starts at position k: up to the closing brace
PathAt(out, k) ==
    LET from == k + Len(Marker)
        close == CHOOSE e \in from..Len(out) :
                     out[e] = 125 /\ \A j \in from..(e - 1) : out[j] # 125
    IN  SubSeq(out, from, close - 1)

RECURSIVE PathsFrom(_, _)
PathsFrom(out, starts) ==
    IF starts = {} THEN <<>>
    ELSE LET k == CHOOSE x \in starts : \A y \in starts : x <= y
         IN  <<PathAt(out, k)>> \o PathsFrom(out, starts \ {k})

\* the paths of the headers of the output, in the order they appear
HeaderPaths(out) == PathsFrom(out, HeaderStarts(out))

\* a is b with some elements left out
RECURSIVE IsSubseq(_, _)
IsSubseq(a, b) ==
    IF a = <<>> THEN TRUE
    ELSE IF b = <<>> THEN FALSE
    ELSE IF Head(a) = Head(b) THEN IsSubseq(Tail(a), Tail(b))
    ELSE IsSubseq(a, Tail(b))

\* some '/'-delimited segment of path starts with '.'
DotSegment(path) ==
    \E k \in 1..Len(path) : path[k] = DOT /\ (k = 1 \/ path[k - 1] = SLASH)

GoFile == <<97, 46, 103, 111>>
Readme == <<82, 69, 65, 68, 77, 69>>
TxtFile == <<98, 46, 116, 120, 116>>
GoOrNone == <<103, 111, 44>>

\* what one loop iteration appended to the buffer
Appended == Drop(buffer', Len(buffer))

\* the iteration wrote a header and a body for the file it visited
Rendered ==
    /\ HasPrefix(buffer', buffer)
    /\ HasPrefix(Appended, Header(files[idx + 1]))

\* the extension is in the set the comma-separated string stands for
Accepted(extensions, fileExt) ==
    \E k \in 1..Len(Split(extensions, COMMA)) :
        LET entry == TrimSpace(Split(extensions, COMMA)[k])
        IN  fileExt = (IF entry = <<>> THEN <<>> ELSE <<DOT>> \o entry)

\* C1: a candidate is rendered exactly when it is not hidden, is classified
\* text, has an accepted extension when extensions are given, and its full
\* read succeeds; a candidate that is not rendered leaves the buffer as it was.
C1_RenderedIffEligible ==
    [][idx' = idx + 1 =>
         LET file == files[idx + 1]
         IN  /\ Rendered <=>
                  /\ ~DotSegment(file)
                  /\ isTextFile(fs[file])
                  /\ opts.Extensions # <<>> => Accepted(opts.Extensions, Ext(file))
                  /\ fs'[file].kind = "file"
             /\ ~Rendered => buffer' = buffer]_vars

\* a run with an extension filter that rendered one candidate and skipped one
C1_Witness ==
    /\ pc = "built"
    /\ opts.Extensions # <<>>
    /\ fileCount = 1
    /\ Len(logged) = 1

\* C2: the headers of the output are the visited candidates with some left
\* out, in input order, one header per rendered file.
C2_HeadersInInputOrder ==
    /\ IsSubseq(HeaderPaths(buffer), SubSeq(files, 1, idx))
    /\ Len(HeaderPaths(buffer)) = fileCount

\* two different files rendered
C2_Witness ==
    /\ pc = "built"
    /\ fileCount = 2
    /\ files[1] # files[2]
    /\ HeaderPaths(buffer) = files

\* C3: the derived extension set holds "" for an empty entry and "." + entry
\* otherwise, never "."; with extensions "go," a.go and README are rendered
\* and b.txt is not.
C3_ExtensionSet ==
    pc # "build" =>
      /\ extMap.nil <=> opts.Extensions = <<>>
      /\ <<DOT>> \notin extMap.keys
      /\ \A key \in extMap.keys :
            key = <<>> \/ (Len(key) >= 2 /\ key[1] = DOT /\ Drop(key, 1) = TrimSpace(Drop(key, 1)))
      /\ opts.Extensions = GoOrNone =>
            /\ extMap.keys = {<<DOT, 103, 111>>, <<>>}
            /\ \A j \in 1..idx :
                  /\ files[j] = TxtFile => TxtFile \notin Range(HeaderPaths(buffer))
                  /\ files[j] \in {GoFile, Readme} /\ isTextFile(fs[files[j]])
                        => files[j] \in Range(HeaderPaths(buffer))
      /\ opts.Extensions = <<SPACE, 116, 120, 116>> =>
            extMap.keys = {<<DOT, 116, 120, 116>>}

\* extensions "go,": README rendered, b.txt left out
C3_Witness ==
    /\ pc = "built"
    /\ opts.Extensions = GoOrNone
    /\ files = <<Readme, TxtFile>>
    /\ HeaderPaths(buffer) = <<Readme>>


\* n in decimal, for n below 1000
Decimal(n) ==
    IF n < 10 THEN <<48 + n>>
    ELSE IF n < 100 THEN <<48 + (n \div 10), 48 + (n % 10)>>
    ELSE <<48 + (n \div 100), 48 + ((n \div 10) % 10), 48 + (n % 10)>>

\* the position of the i-th newline of content; 0 for i = 0 and one past the
\* end when content has fewer than i newlines
NewlineAt(content, i) ==
    IF i = 0 THEN 0
    ELSE IF i > CountByte(content, LF) THEN Len(content) + 1
    ELSE CHOOSE q \in 1..Len(content) :
             /\ content[q] = LF
             /\ Cardinality({r \in 1..q : content[r] = LF}) = i

\* the i-th segment of the literal split of content on '\n'
Segment(content, i) ==
    SubSeq(content, NewlineAt(content, i - 1) + 1, NewlineAt(content, i) - 1)

\* "<i>: <s_i>\n" for i = from..k
RECURSIVE NumberedSegments(_, _, _)
NumberedSegments(content, from, k) ==
    IF from > k THEN <<>>
    ELSE Decimal(from) \o <<COLON, SPACE>> \o Segment(content, from) \o <<LF>>
         \o NumberedSegments(content, from + 1, k)

\* C4: with line numbers the body of a file is one line "<i>: <s_i>\n" per
\* segment of the content split on '\n', i counting from 1 for every file,
\* a trailing newline giving a last numbered empty segment: as many lines as
\* the content has newline characters plus one.
C4_NumberedLines ==
    [][idx' = idx + 1 /\ Rendered /\ opts.IncludeLineNumbers =>
         LET file == files[idx + 1]
             content == fs[file].data
             k == CountByte(content, LF) + 1
         IN  /\ Appended = Header(file) \o NumberedSegments(content, 1, k) \o <<LF>>
             /\ CountByte(Appended, LF) = k + 2
             /\ content # <<>> /\ content[Len(content)] = LF =>
                   HasSuffix(Appended, <<LF>> \o Decimal(k) \o <<COLON, SPACE, LF, LF>>)]_vars

\* two files numbered in one run, the second one's eleven lines again from 1
C4_Witness ==
    /\ pc = "built"
    /\ opts.IncludeLineNumbers
    /\ fileCount = 2
    /\ fs[files[2]].data = <<97, 10, 10, 10, 10, 10, 10, 10, 10, 10, 98, 10>>
    /\ HasSuffix(buffer, <<LF, 49, 49, COLON, SPACE, LF, LF>>)

\* C5: the output begins with the preamble, which occurs once, and the marker
\* "{{File: " occurs once in the preamble and once more per rendered file
\* (no path or content of the model contains the marker).
C5_PreambleOnce ==
    pc # "build" =>
      /\ HasPrefix(buffer, Preamble)
      /\ CountOcc(buffer, Preamble) = 1
      /\ CountOcc(buffer, Marker) = 1 + fileCount
      /\ \A k \in (Len(Preamble) + 1)..(Len(buffer) - Len(Marker) + 1) :
            SubSeq(buffer, k, k + Len(Marker) - 1) = Marker
               => k \in HeaderStarts(buffer)

\* candidates given and every one of them skipped: the preamble alone
C5_Witness ==
    /\ pc = "built"
    /\ Len(files) = 2
    /\ fileCount = 0
    /\ buffer = Preamble

\* C6 as claimed: after the body of every rendered file comes exactly one
\* blank line, whatever the content and the mode: the header and body end a
\* line, and one empty line follows.
C6_OneBlankLineAfterBody ==
    [][idx' = idx + 1 /\ Rendered =>
         LET beforeSeparator == SubSeq(Appended, 1, Len(Appended) - 1)
         IN  /\ Appended[Len(Appended)] = LF
             /\ beforeSeparator[Len(beforeSeparator)] = LF
             /\ opts.IncludeLineNumbers => ~HasSuffix(beforeSeparator, <<LF, LF>>)]_vars

\* C6 amended: every rendered body is followed by exactly one newline byte.
\* With line numbers that is exactly one blank line; without, the entry is
\* header, content verbatim and one newline, so a blank line follows the body
\* exactly when the content is empty or ends in a newline.
C6_OneNewlineAfterBody ==
    [][idx' = idx + 1 /\ Rendered =>
         LET file == files[idx + 1]
             content == fs[file].data
         IN  IF opts.IncludeLineNumbers
             THEN /\ HasSuffix(Appended, <<LF, LF>>)
                  /\ ~HasSuffix(Appended, <<LF, LF, LF>>)
             ELSE /\ Appended = Header(file) \o content \o <<LF>>
                  /\ HasSuffix(Appended, <<LF, LF>>) <=>
                        (content = <<>> \/ content[Len(content)] = LF)]_vars

\* raw mode, a content without a trailing newline rendered before another
\* file: the next header follows on the very next line
C6_Witness ==
    /\ pc = "built"
    /\ ~opts.IncludeLineNumbers
    /\ fileCount = 2
    /\ fs[files[1]].data = <<104, 105>>
    /\ CountOcc(buffer, <<104, 105, LF>> \o Marker) = 1

\* C8: isHiddenFile holds of a path exactly when one of its '/'-delimited
\* segments starts with '.', wherever the segment is and whatever the file
\* holds, and no such path has a header in the output.
C8_HiddenExcluded ==
    \A j \in 1..Len(files) :
        /\ isHiddenFile(files[j]) <=> DotSegment(files[j])
        /\ j <= idx /\ DotSegment(files[j]) =>
              files[j] \notin Range(HeaderPaths(buffer))

\* a text file under a hidden intermediate directory, visited and left out
C8_Witness ==
    /\ pc = "built"
    /\ files = <<<<100, 47, 46, 101, 47, 102>>, GoFile>>
    /\ fs[files[1]] = RegularFile(<<104, 105>>)
    /\ HeaderPaths(buffer) = <<GoFile>>


(***************************************************************************)
(* The classifier and the estimator on their own (SpecCall).               *)
(***************************************************************************)
\* the bytes isTextFile samples
Sample(f) == SubSeq(f.data, 1, Min(SampleSize, Len(f.data)))

\* sampled bytes below 32 other than '\n', '\r', '\t'
ControlBytes(sample) ==
    Cardinality({k \in 1..Len(sample) : sample[k] < 32 /\ sample[k] \notin {LF, CR, TAB}})

\* C7 as claimed: a readable non-empty file with a valid UTF-8 sample is
\* Binary exactly when its control bytes exceed 10% of the sample length,
\* and Text at or below 10%.
C7_BinaryAboveTenPercent ==
    fn = "isTextFile" /\ ret.done /\ arg.kind = "file" /\ arg.data # <<>>
        /\ Utf8Valid(Sample(arg)) =>
      (ret.val = FALSE <=> 10 * ControlBytes(Sample(arg)) > Len(Sample(arg)))

\* C9: isTextFile returns for every file; Binary when the file cannot be
\* opened or read, Text when it is empty, Binary when the sample is not valid
\* UTF-8, however few control bytes it holds.
C9_NonThresholdCases ==
    fn = "isTextFile" =>
      /\ ~ret.done => ENABLED CallIsTextFile
      /\ ret.done =>
           /\ ret.val \in BOOLEAN
           /\ arg.kind \in {"absent", "dir"} => ret.val = FALSE
           /\ arg.kind = "file" /\ arg.data = <<>> => ret.val = TRUE
           /\ arg.kind = "file" /\ ~Utf8Valid(Sample(arg)) => ret.val = FALSE
           /\ arg = RegularFile(<<0, 255, 0, 255>>) => ret.val = FALSE

\* an ill-formed sample without a single control byte, classified Binary
C9_Witness ==
    /\ fn = "isTextFile"
    /\ ret.done
    /\ arg = RegularFile(<<97, 255, 97>>)
    /\ ControlBytes(Sample(arg)) = 0
    /\ ret.val = FALSE

\* w + n modulo 2^64, for a small n
AddWord(w, n) ==
    LET a1 == w[1] + n
        a2 == w[2] + a1 \div Radix
        a3 == w[3] + a2 \div Radix
        a4 == w[4] + a3 \div Radix
    IN  <<a1 % Radix, a2 % Radix, a3 % Radix, a4 % Radix>>

\* floor(s * 10 / 35) without the tenfold of s: with s = 35 q + r it is
\* 10 q + floor(10 r / 35)
FloorTenThirtyFifths(s) ==
    AddWord(MulWord(DivWord(s, 35), 10), (ModWord(s, 35) * 10) \div 35)

\* C10 as claimed: for every size s estimateTokens returns floor(s*10/35),
\* which is not negative and does not decrease as s grows; 0 when the path
\* cannot be stat'ed.
C10_FloorOfScaledSize ==
    fn = "estimateTokens" /\ ret.done =>
      IF arg.err THEN ret.val = Word(0)
      ELSE /\ ret.val = FloorTenThirtyFifths(arg.size)
           /\ ~IsNegative(ret.val)
           /\ \A t \in Sizes :
                 LessEqWord(t, arg.size) =>
                    /\ ~IsNegative(estimateTokens([err |-> FALSE, size |-> t]))
                    /\ LessEqWord(estimateTokens([err |-> FALSE, size |-> t]), ret.val)

\* C11: the statistics cover exactly the rendered files: an iteration that
\* renders its file adds one to fileCount and the file's estimate to
\* totalTokens; an iteration that does not render its file (hidden, binary,
\* extension not accepted, read failed) changes neither; fileCount is the
\* number of headers in the output.
C11_StatsCoverRenderedOnly ==
    [][idx' = idx + 1 =>
         LET file == files[idx + 1]
         IN  /\ Rendered =>
                  /\ fileCount' = fileCount + 1
                  /\ totalTokens' = totalTokens + ToInt(estimateTokens(Stat(fs'[file])))
             /\ ~Rendered =>
                  /\ fileCount' = fileCount
                  /\ totalTokens' = totalTokens
             /\ Len(HeaderPaths(buffer')) = fileCount']_vars

\* the last record the run logged is msg
LastLogged(log, msg) == log # <<>> /\ log[Len(log)][1] = msg

\* C12: writeOutput delivers to one destination and never to two: with
\* CopyToClipboard the clipboard receives the output and no file and not the
\* standard output is touched, also when OutputFilename is set; otherwise
\* with a non-empty OutputFilename only that file changes and after a
\* successful write it holds exactly the output, whatever it held before;
\* otherwise the output is appended to the standard output and nothing else
\* changes.
C12_OneDestination ==
    [][(fn = "writeOutput" /\ pc = "call" /\ ~ret.done) =>
         LET o == arg.opts
             output == arg.output
         IN  /\ o.CopyToClipboard =>
                  /\ disk' = disk
                  /\ stdout' = stdout
                  /\ pc' # "fatal" => clipboard' = output
             /\ (~o.CopyToClipboard /\ o.OutputFilename # <<>>) =>
                  /\ clipboard' = clipboard
                  /\ stdout' = stdout
                  /\ \A name \in OutNames \ {o.OutputFilename} : disk'[name] = disk[name]
                  /\ LastLogged(logged', "Output written to file") =>
                        disk'[o.OutputFilename] = RegularFile(output)
             /\ (~o.CopyToClipboard /\ o.OutputFilename = <<>>) =>
                  /\ clipboard' = clipboard
                  /\ disk' = disk
                  /\ stdout' = stdout \o output]_vars

\* the clipboard was chosen although a file name was set: the clipboard holds
\* the output and the named file is as it was
C12_Witness ==
    /\ fn = "writeOutput"
    /\ ret.done
    /\ arg.opts.CopyToClipboard
    /\ arg.opts.OutputFilename # <<>>
    /\ arg.output = Preamble
    /\ clipboard = Preamble
    /\ disk[arg.opts.OutputFilename] = RegularFile(Old)
    /\ stdout = <<>>

\* some record the run logged is msg
Logged(msg) == \E k \in 1..Len(logged) : logged[k][1] = msg

\* the process was ended by log.Fatal with this message
Fatal(msg) == pc = "fatal" /\ LastLogged(logged, "fatal") /\ logged[Len(logged)][2] = msg

\* C13: a dispatch failure is reported to the caller and is not fatal: the
\* process is never ended inside writeOutput because the clipboard could not
\* be initialised, and when the output file could not be written the error
\* main receives from writeOutput is not nil.
C13_DispatchFailureReported ==
    /\ ~Fatal("clipboard.Init")
    /\ (pc \in {"written", "done"} /\ Logged("Failed to write output file")) =>
          writeErr # "nil"

\* the clipboard, the files and the standard output are as main found them
Untouched ==
    /\ clipboard = Old
    /\ disk = [name \in OutNames |-> IF name = DefaultOutput THEN Absent
                                     ELSE RegularFile(Old)]
    /\ stdout = <<>>

\* the run was ended by log.Fatal before writeOutput was entered
StoppedBeforeDispatch == pc = "fatal" /\ ~Fatal("clipboard.Init")

\* C14 as stated: when the listing fails the run never enters buildOutput or
\* writeOutput, delivers nothing and logs no summary, and the listing failure
\* is the only failure that stops the run before dispatch.
C14_OnlyListingStops ==
    /\ ~repo.ok =>
          /\ pc \in {"parse", "list", "fatal"}
          /\ buffer = <<>>
          /\ Untouched
          /\ ~Logged("Processed files")
    /\ StoppedBeforeDispatch => Fatal("Failed to list Git files")

\* C14: when the listing fails the run never enters buildOutput or
\* writeOutput, delivers nothing and logs no summary; a run that stops before
\* dispatch has delivered nothing and was stopped by a failed listing or, in
\* interactive mode, by a failed prompt of parseOptions, never by a file.
C14_ListingFailureAborts ==
    /\ ~repo.ok =>
          /\ pc \in {"parse", "list", "fatal"}
          /\ buffer = <<>>
          /\ Untouched
          /\ ~Logged("Processed files")
    /\ StoppedBeforeDispatch =>
          /\ Untouched
          /\ buffer = <<>>
          /\ \/ Fatal("Failed to list Git files") /\ ~repo.ok
             \/ /\ flags.i
                /\ repo.ok
                /\ \E k \in 1..Len(Prompts) : Fatal(Prompts[k])

\* the listing of main failed: the run stopped where it found everything
C14_Witness ==
    /\ ~flags.i
    /\ ~repo.ok
    /\ Fatal("Failed to list Git files")
    /\ opts.Extensions # <<>>
    /\ Untouched

\* the stages of main in the order of lines 36-46; log.Fatal ends any of them
Stage(at) ==
    CASE at = "parse" -> 0
      [] at = "list" -> 1
      [] at = "build" -> 2
      [] at = "loop" -> 3
      [] at = "built" -> 4
      [] at = "written" -> 5
      [] at = "done" -> 6
      [] at = "fatal" -> 7

\* C15: nothing reaches the clipboard, a file or the standard output before
\* buildOutput has gone through the whole candidate list: the stages run in
\* the order listing, rendering, dispatch; a destination changes only in the
\* step that follows the return of buildOutput, when every candidate has been
\* visited, and what it receives is taken from the finished buffer; a run
\* that has not reached dispatch has left every destination as it was.
C15_DeliveryAfterBuild ==
    [][/\ Stage(pc') >= Stage(pc)
       /\ Stage(pc') < Stage("written") => Untouched'
       /\ pc' = "fatal" /\ pc # "built" => Untouched'
       /\ pc' = "loop" => files' = getTrackedFiles(repo).files
       /\ sinkVars' # sinkVars =>
             /\ pc = "built"
             /\ idx = Len(files)
             /\ files = getTrackedFiles(repo).files
             /\ HasPrefix(buffer, Preamble)
             /\ \/ clipboard' = buffer
                \/ stdout' = buffer
                \/ \E name \in OutNames :
                      /\ disk'[name].kind = "file"
                      /\ HasPrefix(buffer, disk'[name].data)]_vars

\* two files were rendered and then written to the standard output
C15_Witness ==
    /\ pc = "done"
    /\ Len(files) = 2
    /\ fileCount = 2
    /\ stdout = buffer
    /\ Len(buffer) > Len(Preamble)

\* the paths whose read failed
FailedPaths == {logged[k][2] : k \in {j \in 1..Len(logged) :
                                        logged[j][1] = "Failed to read file"}}

NoRepeat(list) == \A j, k \in 1..Len(list) : list[j] = list[k] => j = k

\* the entries buildOutput writes for a list of candidates, one after the
\* other, over the files as they are
RECURSIVE RenderAll(_, _, _)
RenderAll(list, disk0, o) ==
    IF list = <<>> THEN <<>>
    ELSE LET file == Head(list)
             entry == IF /\ ~DotSegment(file)
                         /\ isTextFile(disk0[file])
                         /\ o.Extensions # <<>> => Accepted(o.Extensions, Ext(file))
                      THEN Header(file)
                           \o Body(disk0[file].data, o.IncludeLineNumbers)
                           \o <<LF>>
                      ELSE <<>>
         IN  entry \o RenderAll(Tail(list), disk0, o)

\* C16: when the read of a selected file fails (the file is not hidden, is
\* classified text, has an accepted extension, and is gone when os.ReadFile
\* runs) the iteration appends nothing and counts nothing, the loop goes on
\* with the next candidate, and the output buildOutput returns is the output
\* for the list without the files whose read failed.
C16_ReadFailureSkipsFile ==
    [][/\ idx' = idx + 1 =>
             LET file == files[idx + 1]
             IN  (/\ ~DotSegment(file)
                  /\ isTextFile(fs[file])
                  /\ opts.Extensions # <<>> => Accepted(opts.Extensions, Ext(file))
                  /\ fs'[file].kind # "file") =>
                     /\ buffer' = buffer
                     /\ fileCount' = fileCount
                     /\ pc' = "loop"
                     /\ LastLogged(logged', "Failed to read file")
       /\ (pc' = "built" /\ NoRepeat(files)) =>
             buffer' = Preamble
                       \o RenderAll(SelectSeq(files, LAMBDA f : f \notin FailedPaths),
                                    fs, opts)]_vars

\* the read of the first of two files failed and the second was rendered
C16_Witness ==
    /\ pc = "built"
    /\ Len(files) = 2
    /\ files[1] # files[2]
    /\ logged = <<<<"Failed to read file", files[1]>>>>
    /\ fileCount = 1
    /\ buffer = Preamble \o Header(files[2])
                \o Body(fs[files[2]].data, opts.IncludeLineNumbers) \o <<LF>>

\* C17: the selection of the interactive form round-trips through
\* Options.Extensions: when parseOptions has returned from interactive mode
\* with a non-empty selection, the extension set buildOutput derives from
\* Extensions is the set of selected extensions, and no filter (a nil map) is
\* derived only for the empty selection.
C17_SelectionRoundTrip ==
    (flags.i /\ Stage(pc) \in 1..6) =>
        LET derived == MakeExtMap(opts.Extensions)
        IN  /\ selectedExts # <<>> =>
                  /\ ~derived.nil
                  /\ derived.keys = Range(selectedExts)
            /\ derived.nil => selectedExts = <<>>

====
